---- MODULE Spec2Model ----
(***************************************************************************)
(* Model of run.py: the day-local interval algebra (clip, intersect,       *)
(* merge, complement), the sun and moon up-interval extractors, the day    *)
(* row of _compute_day_row and the year loop of generate_csv.              *)
(*                                                                         *)
(* Time is a line of integer ticks, TicksPerSecond ticks to the second     *)
(* (datetime keeps microseconds; the model keeps a coarser sub-second      *)
(* grid).  An optional instant is <<>> (None) or <<t>>.  An interval is a  *)
(* pair <<start, end>>, an interval list a sequence of pairs.  Durations   *)
(* are kept in ticks.                                                      *)
(***************************************************************************)
EXTENDS Integers, Sequences, FiniteSets, TLC

\* ---------------------------------------------------------------- bounds
\* Local midnight of the day under computation, on the tick line.
DayStart == 0
\* Ticks in timedelta(days=1).
DayLen == 6
\* Ticks in timedelta(seconds=1).
TicksPerSecond == 2
\* How far outside the day window a raw rise/set instant may fall.
Margin == 1
\* Window length and list length for the interval-algebra specification.
WinLen == 4
MaxLen == 3
\* Number of calendar dates in the modelled year.
DaysInYear == 3

\* ------------------------------------------------------------- constants
\* datetime.date(year, 1, 1), as a day-of-year index.
StartDate == 1
\* datetime.date(year, 12, 31).
EndDate == StartDate + DaysInYear - 1

VARIABLES
    pc,              \* position of the specification's process
    eph,             \* ephemeris outcome for the day under computation
    sun_up,          \* locals of _compute_day_row
    moon_up,
    overlap,
    merged,
    no_sun_no_moon,
    row,             \* the dict _compute_day_row returns
    intervals,       \* interval algebra: the input list
    complement,      \* _complement_intervals(merged, W)
    comp_raw,        \* _complement_intervals(intervals, W)
    comp_twice,      \* _complement_intervals(comp_raw, W)
    d,               \* generate_csv: loop date
    rows,            \* generate_csv: rows
    totals,          \* generate_csv: total_sun, total_moon, ...
    ephs,            \* ephemeris outcomes handed to the loop, by date
    yearRow          \* the "Year Total" day counts

vars == <<pc, eph, sun_up, moon_up, overlap, merged, no_sun_no_moon, row,
          intervals, complement, comp_raw, comp_twice,
          d, rows, totals, ephs, yearRow>>

dayVars == <<sun_up, moon_up, overlap, no_sun_no_moon, row>>
algVars == <<intervals, complement, comp_raw, comp_twice>>
yearVars == <<d, rows, totals, ephs, yearRow>>

\* ---------------------------------------------------------------- values
None == <<>>
Some(x) == <<x>>

Max(a, b) == IF a >= b THEN a ELSE b
Min(a, b) == IF a <= b THEN a ELSE b

\* _day_bounds: (day_start, day_end), day_end = day_start + one day.
DayBounds == <<DayStart, DayStart + DayLen>>

\* --------------------------------------------------- interval primitives
\* Mutant: keeps a zero-length clip result (s <= e for s < e).
ClipInterval_KeepDegenerate(start, end, day_start, day_end) ==
    IF start = None \/ end = None
    THEN None
    ELSE LET s == Max(start[1], day_start)
             e == Min(end[1], day_end)
         IN  IF s <= e THEN Some(<<s, e>>) ELSE None

\* _clip_interval: None, or the one clipped interval.
ClipInterval(start, end, day_start, day_end) ==
    IF start = None \/ end = None
    THEN None
    ELSE LET s == Max(start[1], day_start)
             e == Min(end[1], day_end)
         IN  IF s < e THEN Some(<<s, e>>) ELSE None

\* Mutant: returns the intervals as given, unclipped.
ClipIntervalsToDay_NoClip(ivs, day_start, day_end) ==
    ivs

RECURSIVE ClipLoop(_, _, _)
\* The for loop of _clip_intervals_to_day.
ClipLoop(ivs, day_start, day_end) ==
    IF ivs = <<>>
    THEN <<>>
    ELSE ClipInterval(Some(Head(ivs)[1]), Some(Head(ivs)[2]), day_start, day_end)
            \o ClipLoop(Tail(ivs), day_start, day_end)

\* _clip_intervals_to_day: the non-empty clipped intervals, in order.
ClipIntervalsToDay(ivs, day_start, day_end) ==
    ClipLoop(ivs, day_start, day_end)

RECURSIVE InsertByStart(_, _)
\* One step of the stable sort: x goes after every element whose start is
\* not greater than its own.
InsertByStart(sorted, x) ==
    IF sorted = <<>>
    THEN <<x>>
    ELSE IF x[1] < Head(sorted)[1]
         THEN <<x>> \o sorted
         ELSE <<Head(sorted)>> \o InsertByStart(Tail(sorted), x)

RECURSIVE SortByStart(_)
\* sorted(xs, key=lambda x: x[0]): stable, by start only.
SortByStart(xs) ==
    IF xs = <<>>
    THEN <<>>
    ELSE InsertByStart(SortByStart(SubSeq(xs, 1, Len(xs) - 1)), xs[Len(xs)])

RECURSIVE IntersectPairs(_, _, _, _)
\* The nested loops of _intersect_intervals, from pair (i, j) on.
IntersectPairs(A, B, i, j) ==
    IF i > Len(A)
    THEN <<>>
    ELSE IF j > Len(B)
         THEN IntersectPairs(A, B, i + 1, 1)
         ELSE LET s == Max(A[i][1], B[j][1])
                  e == Min(A[i][2], B[j][2])
              IN  (IF s < e THEN << <<s, e>> >> ELSE <<>>)
                     \o IntersectPairs(A, B, i, j + 1)

RECURSIVE IntersectPairs_MinStart(_, _, _, _)
IntersectPairs_MinStart(A, B, i, j) ==
    IF i > Len(A)
    THEN <<>>
    ELSE IF j > Len(B)
         THEN IntersectPairs_MinStart(A, B, i + 1, 1)
         ELSE LET s == Min(A[i][1], B[j][1])
                  e == Min(A[i][2], B[j][2])
              IN  (IF s < e THEN << <<s, e>> >> ELSE <<>>)
                     \o IntersectPairs_MinStart(A, B, i, j + 1)

\* Mutant: the overlap starts at min(a0, b0) instead of max(a0, b0).
IntersectIntervals_MinStart(A, B) ==
    SortByStart(IntersectPairs_MinStart(A, B, 1, 1))

\* _intersect_intervals.
IntersectIntervals(A, B) ==
    SortByStart(IntersectPairs(A, B, 1, 1))

RECURSIVE MergeLoop(_, _, _)
\* The merge loop of _compute_day_row over the sorted union.
MergeLoop(union, i, acc) ==
    IF i > Len(union)
    THEN acc
    ELSE LET start == union[i][1]
             end == union[i][2]
             n == Len(acc)
         IN  IF n > 0 /\ start <= acc[n][2]
             THEN MergeLoop(union, i + 1,
                            [acc EXCEPT ![n] = <<acc[n][1], Max(acc[n][2], end)>>])
             ELSE MergeLoop(union, i + 1, Append(acc, <<start, end>>))

RECURSIVE MergeLoop_Strict(_, _, _)
MergeLoop_Strict(union, i, acc) ==
    IF i > Len(union)
    THEN acc
    ELSE LET start == union[i][1]
             end == union[i][2]
             n == Len(acc)
         IN  IF n > 0 /\ start < acc[n][2]
             THEN MergeLoop_Strict(union, i + 1,
                            [acc EXCEPT ![n] = <<acc[n][1], Max(acc[n][2], end)>>])
             ELSE MergeLoop_Strict(union, i + 1, Append(acc, <<start, end>>))

\* Mutant: touching intervals (start = previous end) are not coalesced.
MergeUnion_Strict(ivs) ==
    MergeLoop_Strict(SortByStart(ivs), 1, <<>>)

\* union = sorted(...); merged = [...] of _compute_day_row.
MergeUnion(ivs) ==
    MergeLoop(SortByStart(ivs), 1, <<>>)

RECURSIVE ComplementLoop(_, _, _, _, _)
\* The for loop of _complement_intervals: <<cur, out>> when it ends or breaks.
ComplementLoop(sorted, i, cur, out, day_end) ==
    IF i > Len(sorted)
    THEN <<cur, out>>
    ELSE LET start == sorted[i][1]
             end == sorted[i][2]
             out1 == IF start > cur
                     THEN Append(out, <<cur, Min(start, day_end)>>)
                     ELSE out
             cur1 == Max(cur, end)
         IN  IF cur1 >= day_end
             THEN <<cur1, out1>>
             ELSE ComplementLoop(sorted, i + 1, cur1, out1, day_end)

\* Mutant: the gap after the last interval is forgotten.
ComplementIntervals_NoTail(ivs, day_start, day_end) ==
    IF ivs = <<>>
    THEN << <<day_start, day_end>> >>
    ELSE LET r == ComplementLoop(SortByStart(ivs), 1, day_start, <<>>, day_end)
         IN  SelectSeq(r[2], LAMBDA p : p[1] < p[2])

\* _complement_intervals.
ComplementIntervals(ivs, day_start, day_end) ==
    IF ivs = <<>>
    THEN << <<day_start, day_end>> >>
    ELSE LET r == ComplementLoop(SortByStart(ivs), 1, day_start, <<>>, day_end)
             out == IF r[1] < day_end
                    THEN Append(r[2], <<r[1], day_end>>)
                    ELSE r[2]
         IN  SelectSeq(out, LAMBDA p : p[1] < p[2])

RECURSIVE TotalSeconds(_)
\* _total_seconds, in ticks.
TotalSeconds(ivs) ==
    IF ivs = <<>>
    THEN 0
    ELSE (Head(ivs)[2] - Head(ivs)[1]) + TotalSeconds(Tail(ivs))

\* _first_start_last_end.
FirstStartLastEnd(ivs) ==
    IF ivs = <<>>
    THEN <<None, None>>
    ELSE <<Some(ivs[1][1]), Some(ivs[Len(ivs)][2])>>

\* _time_str: "" for None, else the wall-clock time of day cut to whole
\* seconds (strftime drops the date and the microseconds).
TimeStr(dt) ==
    IF dt = None
    THEN None
    ELSE Some(((dt[1] - DayStart) % DayLen) \div TicksPerSecond)

\* _seconds_to_days: round(seconds / one day), ties to even.
SecondsToDays(ticks) ==
    LET q == ticks \div DayLen
        r == ticks % DayLen
    IN  IF 2 * r < DayLen THEN q
        ELSE IF 2 * r > DayLen THEN q + 1
        ELSE IF q % 2 = 0 THEN q ELSE q + 1

\* ------------------------------------------------------------ extractors
\* The interval policy of _get_moon_up_intervals before clipping.
MoonRawIntervals(mr, ms, day_start, day_end) ==
    IF mr # None /\ ms # None
    THEN IF mr[1] < ms[1]
         THEN << <<mr[1], ms[1]>> >>
         ELSE << <<day_start, ms[1]>>, <<mr[1], day_end>> >>
    ELSE IF mr # None
         THEN << <<mr[1], day_end>> >>
         ELSE IF ms # None
              THEN << <<day_start, ms[1]>> >>
              ELSE <<>>

\* _get_moon_up_intervals: (clipped, mr, ms).  A moonrise or moonset that
\* raises ValueError arrives here as None.
GetMoonUpIntervals(mr, ms, day_start, day_end) ==
    <<ClipIntervalsToDay(MoonRawIntervals(mr, ms, day_start, day_end),
                         day_start, day_end), mr, ms>>

\* Mutant: the sun goes through the moon's case policy.
GetSunUpIntervals_AsMoon(s, day_start, day_end) ==
    IF s.exc
    THEN [exc |-> FALSE, val |-> <<>>]
    ELSE [exc |-> FALSE,
          val |-> GetMoonUpIntervals(s.sunrise, s.sunset, day_start, day_end)[1]]

\* Mutant: no try/except around sun(): its exception propagates.
GetSunUpIntervals_NoCatch(s, day_start, day_end) ==
    IF s.exc
    THEN [exc |-> TRUE, val |-> <<>>]
    ELSE [exc |-> FALSE,
          val |-> ClipInterval(s.sunrise, s.sunset, day_start, day_end)]

\* _get_sun_up_intervals.  s.exc: sun() raised; exc of the result: an
\* exception leaves the function.
GetSunUpIntervals(s, day_start, day_end) ==
    IF s.exc
    THEN [exc |-> FALSE, val |-> <<>>]
    ELSE IF s.sunrise = None \/ s.sunset = None
         THEN [exc |-> FALSE, val |-> <<>>]
         ELSE [exc |-> FALSE,
               val |-> ClipInterval(s.sunrise, s.sunset, day_start, day_end)]

\* --------------------------------------------------------- day aggregator
\* _compute_day_row for one date and that date's ephemeris outcome e.
\* The result carries the locals beside the returned dict (row); exc is
\* TRUE when an exception leaves the function instead.
ComputeDayRow(date, e) ==
    LET day_start == DayBounds[1]
        day_end == DayBounds[2]
        sun == GetSunUpIntervals(e.sun, day_start, day_end)
        sunUp == sun.val
        moonUp == GetMoonUpIntervals(e.mr, e.ms, day_start, day_end)[1]
        sun_rise_dt == IF sunUp # <<>> THEN Some(sunUp[1][1]) ELSE None
        sun_set_dt == IF sunUp # <<>> THEN Some(sunUp[Len(sunUp)][2]) ELSE None
        civil_end == day_end - TicksPerSecond
        moon_rise_1 == IF moonUp # <<>> /\ moonUp[1][1] > day_start
                       THEN Some(moonUp[1][1]) ELSE None
        moon_set_1 == IF moonUp # <<>> /\ moonUp[1][2] <= civil_end
                      THEN Some(moonUp[1][2]) ELSE None
        moon_rise_2 == IF Len(moonUp) > 1 THEN Some(moonUp[2][1]) ELSE None
        moon_set_2 == IF Len(moonUp) > 1 /\ moonUp[2][2] <= civil_end
                      THEN Some(moonUp[2][2]) ELSE None
        ovl == IntersectIntervals(sunUp, moonUp)
        ovlFL == FirstStartLastEnd(ovl)
        mrg == MergeUnion(sunUp \o moonUp)
        nsnm == ComplementIntervals(mrg, day_start, day_end)
        nsnmFL == FirstStartLastEnd(nsnm)
    IN  [exc |-> sun.exc,
         sun_up |-> sunUp,
         moon_up |-> moonUp,
         overlap |-> ovl,
         merged |-> mrg,
         no_sun_no_moon |-> nsnm,
         row |-> [date |-> date,
                  sun_rise_time |-> TimeStr(sun_rise_dt),
                  sun_set_time |-> TimeStr(sun_set_dt),
                  total_sun_seconds |-> TotalSeconds(sunUp),
                  moon_rise_1_time |-> TimeStr(moon_rise_1),
                  moon_set_1_time |-> TimeStr(moon_set_1),
                  moon_rise_2_time |-> TimeStr(moon_rise_2),
                  moon_set_2_time |-> TimeStr(moon_set_2),
                  total_moon_seconds |-> TotalSeconds(moonUp),
                  overlap_start_time |-> TimeStr(ovlFL[1]),
                  overlap_end_time |-> TimeStr(ovlFL[2]),
                  total_overlap_seconds |-> TotalSeconds(ovl),
                  no_sun_no_moon_start_time |-> TimeStr(nsnmFL[1]),
                  no_sun_no_moon_end_time |-> TimeStr(nsnmFL[2]),
                  total_no_sun_no_moon_seconds |-> TotalSeconds(nsnm)]]

\* ------------------------------------------------------ ephemeris inputs
\* Raw instants the ephemeris may hand back for a day.
Instants == (DayStart - Margin) .. (DayStart + DayLen + Margin)
OptInstants == {None} \cup {Some(t) : t \in Instants}

\* sun(): it raises, or gives a sunrise and a sunset entry.
SunOutcomes ==
    {[exc |-> TRUE, sunrise |-> None, sunset |-> None]}
        \cup {[exc |-> FALSE, sunrise |-> r, sunset |-> s] :
                 r \in OptInstants, s \in OptInstants}

EphOutcomes ==
    {[sun |-> s, mr |-> r, ms |-> t] :
        s \in SunOutcomes, r \in OptInstants, t \in OptInstants}

NoEph == [sun |-> [exc |-> FALSE, sunrise |-> None, sunset |-> None],
          mr |-> None, ms |-> None]
NoRow == [date |-> 0]
NoTotals == [total_sun_seconds |-> 0, total_moon_seconds |-> 0,
             total_overlap_seconds |-> 0, total_no_sun_no_moon_seconds |-> 0]

\* Values of the variables a specification does not use.
IdleDay == sun_up = <<>> /\ moon_up = <<>> /\ overlap = <<>>
           /\ no_sun_no_moon = <<>> /\ row = NoRow
IdleAlg == intervals = <<>> /\ complement = <<>> /\ comp_raw = <<>>
           /\ comp_twice = <<>>
IdleYear == d = StartDate /\ rows = <<>> /\ totals = NoTotals /\ ephs = <<>>
            /\ yearRow = NoTotals

\* ------------------------------------------- specification: one day row
InitDay ==
    /\ pc = "day_input"
    /\ eph \in EphOutcomes
    /\ merged = <<>>
    /\ IdleDay /\ IdleAlg /\ IdleYear

\* _compute_day_row runs on the day's ephemeris outcome.
ComputeDay ==
    /\ pc = "day_input"
    /\ LET r == ComputeDayRow(StartDate, eph)
       IN  /\ sun_up' = r.sun_up
           /\ moon_up' = r.moon_up
           /\ overlap' = r.overlap
           /\ merged' = r.merged
           /\ no_sun_no_moon' = r.no_sun_no_moon
           /\ row' = r.row
           /\ pc' = IF r.exc THEN "day_raised" ELSE "day_computed"
    /\ UNCHANGED <<eph, algVars, yearVars>>

NextDay == ComputeDay

Spec == InitDay /\ [][NextDay]_vars

\* ------------------------------------------------- claims on one day row
DayEnd == DayBounds[2]
DayDone == pc # "day_input"
Present(o) == o # None
InWindow(o) == o = None \/ (DayStart <= o[1] /\ o[1] < DayEnd)

\* The spec's case table for one body, applied literally to (rise, set).
CaseTable(rise, set) ==
    IF Present(rise) /\ Present(set)
    THEN IF rise[1] < set[1]
         THEN << <<rise[1], set[1]>> >>
         ELSE << <<DayStart, set[1]>>, <<rise[1], DayEnd>> >>
    ELSE IF Present(rise)
         THEN << <<rise[1], DayEnd>> >>
         ELSE IF Present(set)
              THEN << <<DayStart, set[1]>> >>
              ELSE <<>>

\* The case table with the zero-length interval (dayStart, set) of a set at
\* dayStart left out.
CaseTableNoDegenerate(rise, set) ==
    SelectSeq(CaseTable(rise, set), LAMBDA p : p[1] # p[2])

\* C1 (as stated): for rise and set inside [dayStart, dayEnd), the moon
\* extractor returns exactly the intervals of the case table: (rise, set);
\* (dayStart, set) and (rise, dayEnd); (rise, dayEnd); (dayStart, set); or
\* nothing.
C1_CaseTableLiteral ==
    (DayDone /\ InWindow(eph.mr) /\ InWindow(eph.ms))
        => moon_up = CaseTable(eph.mr, eph.ms)

\* C1 (amended): for rise and set inside [dayStart, dayEnd), the moon
\* extractor returns the intervals of the case table, except that a set at
\* exactly dayStart contributes no (dayStart, set) interval: then "set before
\* rise" gives the single interval (rise, dayEnd) and "only set" gives the
\* empty list.
C1_CaseTableClipped ==
    (DayDone /\ InWindow(eph.mr) /\ InWindow(eph.ms))
        => /\ moon_up = CaseTableNoDegenerate(eph.mr, eph.ms)
           /\ (Present(eph.ms) /\ eph.ms[1] = DayStart /\ Present(eph.mr))
                 => moon_up = << <<eph.mr[1], DayEnd>> >>
           /\ (Present(eph.ms) /\ eph.ms[1] = DayStart /\ ~Present(eph.mr))
                 => moon_up = <<>>
           /\ (Present(eph.ms) /\ eph.ms[1] > DayStart /\ Present(eph.mr)
                 /\ eph.mr[1] >= eph.ms[1])
                 => moon_up = << <<DayStart, eph.ms[1]>>, <<eph.mr[1], DayEnd>> >>

\* Witness of C1: the moon sets at dayStart and rises later in the day, and
\* the extractor has returned the one interval (rise, dayEnd).
C1_Witness ==
    /\ pc = "day_computed"
    /\ Present(eph.mr) /\ Present(eph.ms)
    /\ eph.ms[1] = DayStart /\ eph.mr[1] > DayStart /\ eph.mr[1] < DayEnd
    /\ moon_up = << <<eph.mr[1], DayEnd>> >>

\* A body's interval list as the data model wants it.
WellFormedList(l) ==
    /\ Len(l) <= 2
    /\ \A i \in 1..Len(l) :
          DayStart <= l[i][1] /\ l[i][1] < l[i][2] /\ l[i][2] <= DayEnd
    /\ \A i, j \in 1..Len(l) :
          i < j => (l[i][1] <= l[j][1] /\ l[i][2] <= l[j][1])

\* C2: whatever the rise and set instants (present or absent, inside the
\* window or outside it), the extractor's list has at most two intervals,
\* each with dayStart <= start < end <= dayEnd, sorted by start, no two
\* overlapping.
C2_ExtractorListWellFormed ==
    DayDone => (WellFormedList(moon_up) /\ WellFormedList(sun_up))

\* Witness of C2: a moonset before dayStart with a later moonrise inside the
\* day: the raw (dayStart, set) falls outside the window, one clipped
\* interval is left.
C2_Witness ==
    /\ pc = "day_computed"
    /\ Present(eph.mr) /\ Present(eph.ms)
    /\ eph.ms[1] < DayStart /\ eph.mr[1] > DayStart /\ eph.mr[1] < DayEnd
    /\ Len(moon_up) = 1

C6_MoonSegmentsReported ==
    pc = "day_computed"
        => /\ moon_up # <<>>
                => /\ row.moon_rise_1_time =
                        (IF moon_up[1][1] = DayStart
                         THEN None ELSE TimeStr(Some(moon_up[1][1])))
                   /\ row.moon_set_1_time =
                        (IF moon_up[1][2] = DayEnd
                         THEN None ELSE TimeStr(Some(moon_up[1][2])))
           /\ Len(moon_up) < 2
                => (row.moon_rise_2_time = None /\ row.moon_set_2_time = None)

\* C10: sun + moon - overlap + neither is the length of the day window,
\* and the overlap is no longer than the sun's or the moon's time.
C10_DurationsAccountForDay ==
    pc = "day_computed"
        => /\ row.total_sun_seconds + row.total_moon_seconds
                - row.total_overlap_seconds + row.total_no_sun_no_moon_seconds
              = DayEnd - DayStart
           /\ row.total_overlap_seconds <= row.total_sun_seconds
           /\ row.total_overlap_seconds <= row.total_moon_seconds

\* Witness of C10: a day with two moon intervals, some overlap with the sun
\* and some time with neither.
C10_Witness ==
    /\ pc = "day_computed"
    /\ Len(moon_up) = 2
    /\ row.total_overlap_seconds > 0
    /\ row.total_no_sun_no_moon_seconds > 0

\* -------------------------------------- specification: interval algebra
WinStart == DayStart
WinEnd == DayStart + WinLen

\* The intervals clipped to the window: WinStart <= start < end <= WinEnd.
ClippedIntervals ==
    {p \in (WinStart..WinEnd) \X (WinStart..WinEnd) : p[1] < p[2]}

ListsOver(S, n) == UNION {[1..k -> S] : k \in 0..n}

InitAlg ==
    /\ pc = "alg_input"
    /\ intervals \in ListsOver(ClippedIntervals, MaxLen)
    /\ eph = NoEph
    /\ merged = <<>>
    /\ complement = <<>> /\ comp_raw = <<>> /\ comp_twice = <<>>
    /\ IdleDay /\ IdleYear

\* The union is sorted and merged as in _compute_day_row.
Merge ==
    /\ pc = "alg_input"
    /\ merged' = MergeUnion(intervals)
    /\ pc' = "alg_merged"
    /\ UNCHANGED <<eph, dayVars, algVars, yearVars>>

\* _complement_intervals(merged, day_start, day_end).
Complement ==
    /\ pc = "alg_merged"
    /\ complement' = ComplementIntervals(merged, WinStart, WinEnd)
    /\ pc' = "alg_complemented"
    /\ UNCHANGED <<eph, dayVars, merged, intervals, comp_raw, comp_twice, yearVars>>

\* _complement_intervals on the list as given.
ComplementRaw ==
    /\ pc = "alg_complemented"
    /\ comp_raw' = ComplementIntervals(intervals, WinStart, WinEnd)
    /\ pc' = "alg_comp_raw"
    /\ UNCHANGED <<eph, dayVars, merged, intervals, complement, comp_twice, yearVars>>

\* _complement_intervals on its own result.
ComplementAgain ==
    /\ pc = "alg_comp_raw"
    /\ comp_twice' = ComplementIntervals(comp_raw, WinStart, WinEnd)
    /\ pc' = "alg_done"
    /\ UNCHANGED <<eph, dayVars, merged, intervals, complement, comp_raw, yearVars>>

NextAlg == Merge \/ Complement \/ ComplementRaw \/ ComplementAgain

SpecAlg == InitAlg /\ [][NextAlg]_vars

\* How many intervals of a list hold the instant t (half-open: s <= t < e).
Covering(l, t) == Cardinality({i \in 1..Len(l) : l[i][1] <= t /\ t < l[i][2]})

AlgComplemented == pc \in {"alg_complemented", "alg_comp_raw", "alg_done"}

\* C3: merge(L) and complement(merge(L), W) cover W exactly: every instant
\* of W lies in exactly one interval of the two lists together, and no
\* interval of either reaches outside W.
C3_MergeAndComplementPartitionWindow ==
    AlgComplemented
        => /\ \A t \in WinStart..(WinEnd - 1) :
                 Covering(merged, t) + Covering(complement, t) = 1
           /\ \A i \in 1..Len(merged) :
                 WinStart <= merged[i][1] /\ merged[i][1] < merged[i][2]
                    /\ merged[i][2] <= WinEnd
           /\ \A i \in 1..Len(complement) :
                 WinStart <= complement[i][1]
                    /\ complement[i][1] < complement[i][2]
                    /\ complement[i][2] <= WinEnd

\* Witness of C3: overlapping input intervals, a merged cover and a
\* complement with a gap before and a gap after it.
C3_Witness ==
    /\ pc = "alg_complemented"
    /\ Len(intervals) >= 2
    /\ Len(merged) < Len(intervals)
    /\ Len(complement) = 2

\* C7: complement(complement(I, W), W) = merge(I), also for the empty I and
\* for an I that covers W.
C7_ComplementTwiceIsMerge ==
    pc = "alg_done" => comp_twice = merged

\* Witness of C7: touching intervals that do not cover W, complemented
\* twice.
C7_Witness ==
    /\ pc = "alg_done"
    /\ Len(intervals) = 2
    /\ intervals[1][2] = intervals[2][1]
    /\ comp_raw # <<>>
    /\ Len(comp_twice) = 1

\* Witness of C7's edge cases: the empty list, whose complement is all of W.
C7_WitnessEmpty ==
    /\ pc = "alg_done"
    /\ intervals = <<>>
    /\ comp_raw = << <<WinStart, WinEnd>> >>

\* --------------------------------------------- claim on malformed input
\* C5: a malformed interval (start >= end) handed to an interval primitive
\* is rejected with an error, not silently dropped: a sunrise at or after
\* the sunset, which _get_sun_up_intervals hands to _clip_interval as
\* (start, end), makes the day's computation raise.
C5_MalformedIntervalRejected ==
    (DayDone /\ ~eph.sun.exc
        /\ Present(eph.sun.sunrise) /\ Present(eph.sun.sunset)
        /\ eph.sun.sunrise[1] >= eph.sun.sunset[1])
        => pc = "day_raised"

\* ------------------------------------------- specification: the year loop
\* The ephemeris outcomes of the year loop: sun() raises or gives a day-time
\* pair; moonrise and moonset are each undefined or inside the day.
YearSunOutcomes ==
    {[exc |-> TRUE, sunrise |-> None, sunset |-> None],
     [exc |-> FALSE, sunrise |-> Some(DayStart + 1), sunset |-> Some(DayEnd - 1)]}
YearEphOutcomes ==
    {[sun |-> s, mr |-> r, ms |-> t] :
        s \in YearSunOutcomes,
        r \in {None, Some(DayStart + 1), Some(DayEnd - 1)},
        t \in {None, Some(DayStart + 2)}}

\* Mutant: the loop stops one date early (d < end_date).
LoopCondition_Strict(date) == date < EndDate

\* while d <= end_date.
LoopCondition(date) == date <= EndDate

\* total_sun += row[...]; total_moon += ...; and so on.
AddTotals(t, r) ==
    [total_sun_seconds |-> t.total_sun_seconds + r.total_sun_seconds,
     total_moon_seconds |-> t.total_moon_seconds + r.total_moon_seconds,
     total_overlap_seconds |-> t.total_overlap_seconds + r.total_overlap_seconds,
     total_no_sun_no_moon_seconds |->
        t.total_no_sun_no_moon_seconds + r.total_no_sun_no_moon_seconds]

InitYear ==
    /\ pc = "year_loop"
    /\ d = StartDate
    /\ rows = <<>>
    /\ totals = NoTotals
    /\ ephs = <<>>
    /\ yearRow = NoTotals
    /\ eph = NoEph
    /\ merged = <<>>
    /\ IdleDay /\ IdleAlg

\* _compute_day_row(d, observer, tz) for every date of the year and every
\* ephemeris outcome, tabulated: ComputeDayRow depends on nothing else.
DayRowTable ==
    [date \in StartDate..EndDate |->
        [e \in YearEphOutcomes |-> ComputeDayRow(date, e)]]

\* One pass of the while loop of generate_csv: the day's row is computed
\* from that date's ephemeris outcome, appended and added to the totals; an
\* exception leaving _compute_day_row leaves generate_csv too.
LoopStep ==
    /\ pc = "year_loop"
    /\ LoopCondition(d)
    /\ \E e \in YearEphOutcomes :
          LET r == DayRowTable[d][e]
          IN  /\ ephs' = Append(ephs, e)
              /\ IF r.exc
                 THEN /\ pc' = "year_raised"
                      /\ UNCHANGED <<d, rows, totals>>
                 ELSE /\ rows' = Append(rows, r.row)
                      /\ totals' = AddTotals(totals, r.row)
                      /\ d' = d + 1
                      /\ pc' = "year_loop"
    /\ UNCHANGED <<eph, dayVars, merged, algVars, yearRow>>

\* The loop has ended: the "Year Total" row's day counts are written.
WriteYearTotal ==
    /\ pc = "year_loop"
    /\ ~LoopCondition(d)
    /\ yearRow' = [total_sun_seconds |-> SecondsToDays(totals.total_sun_seconds),
                   total_moon_seconds |-> SecondsToDays(totals.total_moon_seconds),
                   total_overlap_seconds |->
                       SecondsToDays(totals.total_overlap_seconds),
                   total_no_sun_no_moon_seconds |->
                       SecondsToDays(totals.total_no_sun_no_moon_seconds)]
    /\ pc' = "year_done"
    /\ UNCHANGED <<eph, dayVars, merged, algVars, d, rows, totals, ephs>>

NextYear == LoopStep \/ WriteYearTotal

\* generate_csv is straight-line sequential code: a step that can be taken
\* is taken.
SpecYear == InitYear /\ [][NextYear]_vars /\ WF_vars(NextYear)

RECURSIVE SumField(_, _)
SumField(rs, f) == IF rs = <<>> THEN 0 ELSE Head(rs)[f] + SumField(Tail(rs), f)

\* C8: when the year loop has ended, the rows are the dates from 1 January
\* to 31 December, each once and in order, and each of the four totals is
\* the sum of that duration over the rows.
C8_YearTotalsAreSums ==
    pc = "year_done"
        => /\ Len(rows) = EndDate - StartDate + 1
           /\ \A i \in 1..Len(rows) : rows[i].date = StartDate + i - 1
           /\ totals.total_sun_seconds = SumField(rows, "total_sun_seconds")
           /\ totals.total_moon_seconds = SumField(rows, "total_moon_seconds")
           /\ totals.total_overlap_seconds
                 = SumField(rows, "total_overlap_seconds")
           /\ totals.total_no_sun_no_moon_seconds
                 = SumField(rows, "total_no_sun_no_moon_seconds")

\* Witness of C8: the loop has ended over days that differ, with sun, moon,
\* overlap and neither all contributing to the totals.
C8_Witness ==
    /\ pc = "year_done"
    /\ Len(rows) = DaysInYear
    /\ rows[1].total_sun_seconds # rows[2].total_sun_seconds
    /\ totals.total_sun_seconds > 0
    /\ totals.total_moon_seconds > 0
    /\ totals.total_overlap_seconds > 0
    /\ totals.total_no_sun_no_moon_seconds > 0

\* What the loop holds after each date when no ephemeris failure aborts it:
\* a row for every date handed in, in date order, and for a date whose sun
\* computation failed a row with blank sun rise/set and no sun time.
DegradedDaysRecorded ==
    /\ pc # "year_raised"
    /\ Len(rows) = Len(ephs)
    /\ \A i \in 1..Len(rows) :
          /\ rows[i].date = StartDate + i - 1
          /\ ephs[i].sun.exc
                => /\ rows[i].sun_rise_time = None
                   /\ rows[i].sun_set_time = None
                   /\ rows[i].total_sun_seconds = 0
          /\ (ephs[i].mr = None /\ ephs[i].ms = None)
                => rows[i].total_moon_seconds = 0

\* C9: a date whose ephemeris is undefined for a body never aborts the
\* year: its missing instants count as absent, its row is still produced,
\* and the loop goes on to a row for every date and to the year totals.
C9_UndefinedEphemerisNeverAborts ==
    /\ []DegradedDaysRecorded
    /\ <>(pc = "year_done" /\ Len(rows) = DaysInYear)

\* Witness of C9: the first date had no sun, no moonrise and no moonset, a
\* later date had them, and the year is done with every row.
C9_Witness ==
    /\ pc = "year_done"
    /\ Len(rows) = DaysInYear
    /\ ephs[1].sun.exc /\ ephs[1].mr = None /\ ephs[1].ms = None
    /\ ~ephs[2].sun.exc /\ ephs[2].mr # None
    /\ rows[1].total_sun_seconds = 0
    /\ rows[2].total_sun_seconds > 0

====
